---- MODULE Spec2Model ----
(***************************************************************************)
(* The reinforcement-learning sandbox of the portfolio site: the physics   *)
(* component RoboticArm (src/components/RoboticArm.tsx, lines 1-270) and   *)
(* its training controller Experiments (src/pages/Experiments.tsx, lines   *)
(* 307-844).                                                               *)
(*                                                                         *)
(* JavaScript runs every callback to completion on one thread.  A frame    *)
(* (the requestAnimationFrame callback `loop`) is therefore modelled as a  *)
(* chain of steps that no user event can interleave with: the program      *)
(* counter pc is "idle" between frames, and only then do the click,        *)
(* slider and resize handlers run.  Inside a frame pc walks through one    *)
(* updatePhysics call after the other, and through the calls it makes      *)
(* (onGetAction, onEpisodeEnd -> finishEpisode, resetEpisode).             *)
(*                                                                         *)
(* isRunning, simulationSpeed and the handlers reach the frame callback    *)
(* through closures that React re-creates in the commit following a        *)
(* click, and policyRef is updated by an effect of that commit; the commit *)
(* and its effects are flushed before the next frame, so a frame reads the *)
(* state the last handler set.                                             *)
(*                                                                         *)
(* Numbers.  The code computes in IEEE doubles; the model computes in      *)
(* fixed point:                                                            *)
(*   lengths and velocities  in units of 1/50 px (0.38 px = 19 units),     *)
(*   rewards, returns and the baseline in units of 1/1000,                 *)
(*   the action standard deviation in units of 1/1000000.                  *)
(* The network's weight arrays and Adam's moment arrays are not computed:  *)
(* weights are identified by the createWeights call that made them and the *)
(* number of Adam steps applied since, the moments by the number of        *)
(* gradients folded into them.  The joint angles range over a table of     *)
(* sampled angle pairs whose forward kinematics is tabulated.              *)
(***************************************************************************)
EXTENDS Integers, Sequences, FiniteSets, TLC

(***************************************************************************)
(* Bounds of the model.                                                    *)
(***************************************************************************)
\* resetEpisode calls after which no further frame is started
MaxResets == 5
\* startTraining calls
MaxStarts == 2
\* resolution of a stored step reward, in units of 1/1000
RewardGrain == 1000

(***************************************************************************)
(* Program constants.                                                      *)
(***************************************************************************)
\* phys.l1, phys.l2, ball.radius (px)
L1 == 280
L2 == 260
BallRadius == 28
\* phys.goal: y, width, height (px)
GoalY == 40
GoalWidth == 200
GoalHeight == 50
\* gravity added to vy per tick: 0.38 px = 19 units of 1/50 px
Gravity == 19
\* capsule padding of the arm segments (px)
ArmPadding == 14
\* wall restitution 0.85, in percent
WallRestitution == 85
\* upward kick of an arm contact, vy -= 6 (px)
ContactLift == 6
\* resetEpisode: ball.y = min(height / 2 - 40, 260)
ResetDrop == 40
ResetCeil == 260
\* onGetAction: tanh(action) * 15 (px)
ActionScale == 15
\* finishEpisode: PPO mini-batch of 4 episodes, 4 epochs; gamma = 0.99 in percent
PpoBatch == 4
PpoEpochs == 4
GammaPct == 99
\* finishEpisode: clip = 0.2, in units of 1/1000
ClipMilli == 200
\* stdRef: 0.6 initially, floor 0.08 (units of 1/1000000)
StdInit == 600000
StdFloor == 80000
\* rewardHistory keeps the last 24 points
maxHistory == 24

\* n pixels in length units
Px(n) == 50 * n

Max(a, b) == IF a >= b THEN a ELSE b
Min(a, b) == IF a <= b THEN a ELSE b
Abs(a) == IF a >= 0 THEN a ELSE -a

\* clamp of Experiments.tsx; RoboticArm.tsx writes it out as max(lo, min(hi, v))
clamp(v, lo, hi) == Max(lo, Min(hi, v))

\* a * num / den rounded toward zero (the fixed-point image of a float product)
Scale(a, num, den) == IF a * num >= 0 THEN (a * num) \div den ELSE -((-(a * num)) \div den)

RECURSIVE SqrtFrom(_, _)
SqrtFrom(n, x) ==
  LET y == (x + n \div x) \div 2
  IN IF y >= x THEN x ELSE SqrtFrom(n, y)

\* floor of Math.sqrt(n)
ISqrt(n) == IF n <= 0 THEN 0 ELSE SqrtFrom(n, n)

RECURSIVE SumSeq(_)
SumSeq(s) == IF s = <<>> THEN 0 ELSE Head(s) + SumSeq(Tail(s))

RECURSIVE Flatten(_)
Flatten(ss) == IF ss = <<>> THEN <<>> ELSE Head(ss) \o Flatten(Tail(ss))

(***************************************************************************)
(* Inputs.  Math.random, the sampled action noise and the window size are  *)
(* drawn from these sets.                                                  *)
(***************************************************************************)
\* window.innerWidth x window.innerHeight (px)
Viewports == {<<240, 300>>, <<240, 320>>, <<240, 120>>}
\* the three Math.random() draws of one resetEpisode call:
\*   Math.random() * 180 - 90, in [-90, 90) px,
\*   (Math.random() - 0.5) * 6, in [-3, 3) px per tick, in length units,
\*   (Math.random() - 0.5) * 4, in [-2, 2) px per tick, in length units
ResetDraws == {<<-90, -150, -100>>, <<60, 100, -90>>}
\* (Math.random() - 0.5) * 3, in [-1.5, 1.5) px per tick, in length units
ContactKicks == {-75, 50}
\* the actions sampleAction draws, mean + std * noise per axis, in 1/1000:
\* any real number
SampledActions == {<<-20000, -20000>>, <<20000, 0>>}

\* Math.tanh(a) in 1/1000 for a in 1/1000: the Pade quotient
\* x (27 + x^2) / (27 + 9 x^2) up to |x| = 3, where it reaches 1, and 1 beyond
TanhMilli(a) ==
  LET h == a \div 10
  IN IF h >= 300 THEN 1000
     ELSE IF h <= -300 THEN -1000
     ELSE Scale(10 * h * (270000 + h * h), 1, 270000 + 9 * h * h)

\* onGetAction returning the sampled action times 15, not squashed
actionDelta_unsquashed(a) ==
  << Scale(a[1], ActionScale, 1000), Scale(a[2], ActionScale, 1000) >>

\* onGetAction, line 726: { dx: Math.tanh(action[0]) * 15, dy: Math.tanh(action[1]) * 15 },
\* in whole px
actionDelta(a) ==
  << Scale(TanhMilli(a[1]), ActionScale, 1000), Scale(TanhMilli(a[2]), ActionScale, 1000) >>

\* tanh(action) * 15 for the sampled action, per axis (px)
ActionDeltas == { actionDelta(a) : a \in SampledActions }
\* the slider's range: min="1" max="40" step="1"
SliderMin == 1
SliderMax == 40
SliderValues == SliderMin..SliderMax
\* the slider: 1 .. 40 in steps of 1
Speeds == {1, 2}
Policies == {"pg", "ppo"}
\* the sampled joint-angle pairs (indices of ArmTable)
Thetas == {1, 2}

VARIABLES
  ctl,        \* Experiments: React state and refs
  phys,       \* RoboticArm: phys.current
  pc,         \* where the frame callback stands ("idle": between frames)
  stepsLeft,  \* updatePhysics calls still to make in this frame
  result,     \* argument of the onEpisodeEnd call in progress
  fin,        \* finishEpisode's locals while its epoch loop runs
  frame,      \* the PhysicsState handed to onGetAction in this tick
  action,     \* the delta onGetAction returned in this tick
  pre,        \* history: phys as it was when this tick began
  nActions,   \* history: onGetAction calls made in this tick
  epId,       \* history: number of resetEpisode calls so far
  session,    \* history: number of startTraining calls so far
  sinceEmpty, \* history: ticks with isRunning and ball.active since the
              \*          trajectory was last emptied
  updates,    \* history: learning updates begun since the last startTraining,
              \*          per policy mode
  inp,        \* the arguments of a function applied on its own
  out         \* what the function returned for inp

vars == <<ctl, phys, pc, stepsLeft, result, fin, frame, action, pre, nActions, epId, session, sinceEmpty, updates, inp, out>>

\* the variables of the functions applied on their own
pure == <<inp, out>>

hist == <<pre, nActions, epId, session, sinceEmpty, updates>>

(***************************************************************************)
(* Experiments.tsx: the controller.                                        *)
(***************************************************************************)
\* createWeights(): fresh random arrays, identified by the call that made them
createWeights(gen) == [gen |-> gen, step |-> 0]

\* the six parameter arrays, each with its two moment arrays
ParamArrays == {"w1", "b1", "w2", "b2", "w3", "b3"}

\* createAdamState(): every moment array zero, t = 0; used: the t each
\* array's last adamStep was given
createAdamState == [ t |-> 0, folded |-> 0, used |-> [ a \in ParamArrays |-> 0 ] ]

\* The refs and state of Experiments after its first render.
InitCtl ==
  [ policy |-> "pg", isRunning |-> FALSE,
    episodes |-> 0, goals |-> 0, misses |-> 0, rewardHistory |-> <<>>,
    speed |-> 1,
    trajectory |-> <<>>, batchTraj |-> <<>>,
    weights |-> createWeights(0), adam |-> createAdamState,
    std |-> StdInit, baseline |-> 0, batchEpisodes |-> 0 ]

\* startTraining with the line  stdRef.current = 0.6  left out
startTraining_keepsStd(c, gen) ==
  [ c EXCEPT !.episodes = 0, !.goals = 0, !.misses = 0, !.rewardHistory = <<>>,
             !.trajectory = <<>>, !.batchTraj = <<>>,
             !.weights = createWeights(gen), !.adam = createAdamState,
             !.baseline = 0, !.batchEpisodes = 0,
             !.isRunning = TRUE ]

\* startTraining, without its simControlRef.current.reset() call
startTraining(c, gen) ==
  [ c EXCEPT !.episodes = 0, !.goals = 0, !.misses = 0, !.rewardHistory = <<>>,
             !.trajectory = <<>>, !.batchTraj = <<>>,
             !.weights = createWeights(gen), !.adam = createAdamState,
             !.baseline = 0, !.std = StdInit, !.batchEpisodes = 0,
             !.isRunning = TRUE ]

\* the Stop Policy button: setIsRunning(false)
stopTraining(c) == [ c EXCEPT !.isRunning = FALSE ]

\* handlePolicySwitch flushing the trajectory and the baseline but not the batch
handlePolicySwitch_keepsBatch(c, next) ==
  IF next = c.policy THEN c
  ELSE IF c.isRunning
       THEN [ c EXCEPT !.policy = next, !.trajectory = <<>>, !.baseline = 0 ]
       ELSE [ c EXCEPT !.policy = next ]

\* handlePolicySwitch that also starts the optimizer afresh
handlePolicySwitch_resetsOptimizer(c, next) ==
  IF next = c.policy THEN c
  ELSE IF c.isRunning
       THEN [ c EXCEPT !.policy = next, !.trajectory = <<>>, !.batchTraj = <<>>,
                       !.batchEpisodes = 0, !.baseline = 0, !.adam = createAdamState ]
       ELSE [ c EXCEPT !.policy = next ]

\* handlePolicySwitch(next); policyRef mirrors policy before the next event
handlePolicySwitch(c, next) ==
  IF next = c.policy THEN c
  ELSE IF c.isRunning
       THEN [ c EXCEPT !.policy = next, !.trajectory = <<>>, !.batchTraj = <<>>,
                       !.batchEpisodes = 0, !.baseline = 0 ]
       ELSE [ c EXCEPT !.policy = next ]

\* the Simulation Speed slider: setSpeed(Number(e.target.value))
setSpeed(c, s) == [ c EXCEPT !.speed = s ]

\* buildState / sampleAction are not computed; a StepRecord keeps, in place of
\* state, action and logProb, where it was sampled: the episode, the training
\* session, the policy mode, the weights and the std in force.
StepRecord(c, reward, ep, sess) ==
  [ ep |-> ep, sess |-> sess, pol |-> c.policy, weights |-> c.weights, std |-> c.std,
    reward |-> reward ]

\* distance between two points given in length units, in whole px
DistPx(x1, y1, x2, y2) ==
  LET dx == (x1 - x2) \div Px(1)
      dy == (y1 - y2) \div Px(1)
  IN ISqrt(dx * dx + dy * dy)

\* computeStepReward(frame), in units of 1/1000, held to RewardGrain
computeStepReward(fr) ==
  LET gcx == fr.goal.x + fr.goal.width \div 2
      gcy == fr.goal.y + fr.goal.height \div 2
      distToBall == DistPx(fr.ball.x, fr.ball.y, fr.effector.x, fr.effector.y)
      distToGoal == DistPx(fr.ball.x, fr.ball.y, gcx, gcy)
      raw == -((distToBall * 100) \div fr.viewport.width)
             - ((distToGoal * 50) \div fr.viewport.width)
  IN Scale(raw + (IF raw >= 0 THEN RewardGrain ELSE -RewardGrain) \div 2, 1, RewardGrain) * RewardGrain

\* onGetAction storing its record in place of the trajectory
onGetAction_overwrites(c, fr, ep, sess) ==
  [ c EXCEPT !.trajectory = <<StepRecord(c, computeStepReward(fr), ep, sess)>> ]

\* onGetAction(frame): the record pushed onto trajectoryRef
onGetAction(c, fr, ep, sess) ==
  [ c EXCEPT !.trajectory = Append(@, StepRecord(c, computeStepReward(fr), ep, sess)) ]

\* the terminal reward added to every record of the trajectory
TerminalBump_everyRecord(traj, res) ==
  [ i \in 1..Len(traj) |->
      [ traj[i] EXCEPT !.reward = @ + (IF res = "goal" THEN 1000 ELSE -1000) ] ]

\* traj[traj.length - 1].reward += result === 'goal' ? 1 : -1
TerminalBump(traj, res) ==
  [ traj EXCEPT ![Len(traj)].reward = @ + (IF res = "goal" THEN 1000 ELSE -1000) ]

\* discounted returns of one trajectory: G = reward + gamma * G, backward
RECURSIVE Returns(_)
Returns(t) ==
  IF t = <<>> THEN <<>>
  ELSE LET rest == Returns(Tail(t))
           G == IF rest = <<>> THEN 0 ELSE Head(rest)
       IN <<Head(t).reward + Scale(G, GammaPct, 100)>> \o rest

\* the returns of a batch with G set to 0 once, before the loop over the
\* trajectories, so that each trajectory starts from the G the one before left
RECURSIVE ReturnsFrom(_, _)
ReturnsFrom(t, G0) ==
  IF t = <<>> THEN <<>>
  ELSE LET rest == ReturnsFrom(Tail(t), G0)
           G == IF rest = <<>> THEN G0 ELSE Head(rest)
       IN <<Head(t).reward + Scale(G, GammaPct, 100)>> \o rest

RECURSIVE ReturnsCarried(_, _)
ReturnsCarried(batch, G0) ==
  IF batch = <<>> THEN <<>>
  ELSE LET returns == ReturnsFrom(Head(batch), G0)
       IN <<returns>> \o ReturnsCarried(Tail(batch), IF returns = <<>> THEN G0 ELSE Head(returns))

ReturnsPerTraj_carriesG(batch) == ReturnsCarried(batch, 0)

RECURSIVE ReturnsPerTraj(_)
ReturnsPerTraj(batch) ==
  IF batch = <<>> THEN <<>> ELSE <<Returns(Head(batch))>> \o ReturnsPerTraj(Tail(batch))

\* baselineRef.current = 0.95 * baseline + 0.05 * batchMean
NewBaseline(baseline, trainBatch) ==
  LET allReturns == Flatten(ReturnsPerTraj(trainBatch))
      batchMean == Scale(SumSeq(allReturns), 1, Max(1, Len(allReturns)))
  IN Scale(95 * baseline + 5 * batchMean, 1, 100)

\* the decay without its floor: std * (ppo ? 0.9995 : 0.998)
StdDecay_noFloor(std, currentPolicy) ==
  std - std \div (IF currentPolicy = "ppo" THEN 2000 ELSE 500)

\* Math.max(0.08, std * (ppo ? 0.9995 : 0.998))
StdDecay(std, currentPolicy) ==
  Max(StdFloor, std - std \div (IF currentPolicy = "ppo" THEN 2000 ELSE 500))

\* Math.exp(d) in units of 1/1000, d in units of 1/100: the (2,2) Pade
\* approximant (d^2 + 6d + 12) / (d^2 - 6d + 12); exact at 0 and increasing on
\* the log-probability differences the model draws
ExpMilli(d) ==
  (1000 * (d * d + 600 * d + 120000)) \div (d * d - 600 * d + 120000)

\* the log-ratio taken for the ratio: Math.exp left out
importanceRatio_logDifference(newLogP, oldLogP) == 10 * (newLogP - oldLogP)

\* line 618: ratio = Math.exp(newLogP - oldLogP), log-probabilities in 1/100
importanceRatio(newLogP, oldLogP) == ExpMilli(newLogP - oldLogP)

\* the clip decided without regard to the sign of the advantage
gradScale_signUnaware(currentPolicy, ratio, adv) ==
  IF currentPolicy = "ppo"
  THEN LET clippedRatio == clamp(ratio, 1000 - ClipMilli, 1000 + ClipMilli)
           useUnclipped == ratio <= clippedRatio
       IN IF ~useUnclipped /\ (ratio < 1000 - ClipMilli \/ ratio > 1000 + ClipMilli)
          THEN [ skip |-> TRUE, scale |-> 0 ]
          ELSE [ skip |-> FALSE, scale |-> ratio ]
  ELSE [ skip |-> FALSE, scale |-> 1000 ]

\* lines 621-636: whether the sample is skipped (continue) and, if not, the
\* gradScale its gradient is multiplied by; ratio, adv and scale in 1/1000
gradScale(currentPolicy, ratio, adv) ==
  IF currentPolicy = "ppo"
  THEN LET clippedRatio == clamp(ratio, 1000 - ClipMilli, 1000 + ClipMilli)
           useUnclipped == IF adv >= 0 THEN ratio <= clippedRatio ELSE ratio >= clippedRatio
       IN IF ~useUnclipped /\ (ratio < 1000 - ClipMilli \/ ratio > 1000 + ClipMilli)
          THEN [ skip |-> TRUE, scale |-> 0 ]
          ELSE [ skip |-> FALSE, scale |-> ratio ]
  ELSE [ skip |-> FALSE, scale |-> 1000 ]

NoFin == [ active |-> FALSE, currentPolicy |-> "pg", trainBatch |-> <<>>, epochs |-> 0, epoch |-> 0 ]

\* bufferEpisode without the line  trajectoryRef.current = []
bufferEpisode_keepsTrajectory(c, res) ==
  [ c EXCEPT !.batchTraj = Append(@, TerminalBump(c.trajectory, res)),
             !.batchEpisodes = @ + 1 ]

\* finishEpisode, lines 542-546: the terminal reward, the trajectory moved
\* into the batch, the episode counted
bufferEpisode(c, res) ==
  [ c EXCEPT !.batchTraj = Append(@, TerminalBump(c.trajectory, res)),
             !.trajectory = <<>>,
             !.batchEpisodes = @ + 1 ]

\* differences newLogP - oldLogP, in 1/100, of a record re-evaluated under
\* weights and a std other than the ones it was sampled with
OffPolicyDiffs == {-30, 0, 30}

\* lines 615-618: newLogP - oldLogP of a stored step.  forward and
\* gaussianLogProb are deterministic, so under the weights and the std the
\* step was sampled with  newLogP  is  oldLogP  again; under any others the
\* difference is whatever the two networks make it.
logProbDifference(rec, weights, std) ==
  IF rec.weights = weights /\ rec.std = std THEN {0} ELSE OffPolicyDiffs

\* beginUpdate with the policy-gradient update running two epochs
beginUpdate_pgTwoEpochs(c1, currentPolicy) ==
  LET traj == c1.batchTraj[Len(c1.batchTraj)]
      trainBatch == IF currentPolicy = "ppo" THEN c1.batchTraj ELSE <<traj>>
  IN [ c |-> [ c1 EXCEPT !.baseline = NewBaseline(@, trainBatch) ],
       fin |-> [ active |-> TRUE, currentPolicy |-> currentPolicy,
                 trainBatch |-> trainBatch,
                 epochs |-> IF currentPolicy = "ppo" THEN PpoEpochs ELSE 2,
                 epoch |-> 0 ] ]

\* finishEpisode, lines 553-594: the batch to train on, the baseline, and the
\* locals the epoch loop starts with; c1 is the learner after bufferEpisode
beginUpdate(c1, currentPolicy) ==
  LET traj == c1.batchTraj[Len(c1.batchTraj)]
      trainBatch == IF currentPolicy = "ppo" THEN c1.batchTraj ELSE <<traj>>
  IN [ c |-> [ c1 EXCEPT !.baseline = NewBaseline(@, trainBatch) ],
       fin |-> [ active |-> TRUE, currentPolicy |-> currentPolicy,
                 trainBatch |-> trainBatch,
                 epochs |-> IF currentPolicy = "ppo" THEN PpoEpochs ELSE 1,
                 epoch |-> 0 ] ]

\* finishEpisode with  batchEpisodesRef.current <= 4  for the PPO wait
finishEpisode_waitsForFive(c, res) ==
  IF Len(c.trajectory) = 0 THEN [ c |-> c, fin |-> NoFin ]
  ELSE
    LET c1 == bufferEpisode(c, res)
        currentPolicy == c.policy
    IN IF currentPolicy = "ppo" /\ c1.batchEpisodes <= PpoBatch
       THEN [ c |-> c1, fin |-> NoFin ]
       ELSE beginUpdate(c1, currentPolicy)

\* finishEpisode counting the episode before it tests for an empty trajectory
finishEpisode_countsEmpty(c, res) ==
  IF Len(c.trajectory) = 0
  THEN [ c |-> [ c EXCEPT !.batchEpisodes = @ + 1 ], fin |-> NoFin ]
  ELSE
    LET c1 == bufferEpisode(c, res)
        currentPolicy == c.policy
    IN IF currentPolicy = "ppo" /\ c1.batchEpisodes < PpoBatch
       THEN [ c |-> c1, fin |-> NoFin ]
       ELSE beginUpdate(c1, currentPolicy)

\* finishEpisode decaying the exploration noise while PPO waits for its batch
finishEpisode_decaysWhileWaiting(c, res) ==
  IF Len(c.trajectory) = 0 THEN [ c |-> c, fin |-> NoFin ]
  ELSE
    LET c1 == bufferEpisode(c, res)
        currentPolicy == c.policy
    IN IF currentPolicy = "ppo" /\ c1.batchEpisodes < PpoBatch
       THEN [ c |-> [ c1 EXCEPT !.std = StdDecay(@, currentPolicy) ], fin |-> NoFin ]
       ELSE beginUpdate(c1, currentPolicy)

\* finishEpisode(result) up to its epoch loop: the new refs, and the locals the
\* loop starts with (active: the loop is entered)
finishEpisode(c, res) ==
  IF Len(c.trajectory) = 0 THEN [ c |-> c, fin |-> NoFin ]
  ELSE
    LET c1 == bufferEpisode(c, res)
        currentPolicy == c.policy
    IN IF currentPolicy = "ppo" /\ c1.batchEpisodes < PpoBatch
       THEN [ c |-> c1, fin |-> NoFin ]
       ELSE beginUpdate(c1, currentPolicy)

\* the epoch's six adamStep calls made before  opt.t += 1
adamEpoch_staleT(c) ==
  [ c EXCEPT !.adam = [ t |-> @.t + 1, folded |-> @.folded + 1,
                        used |-> [ a \in ParamArrays |-> c.adam.t ] ],
             !.weights = [ @ EXCEPT !.step = @ + 1 ] ]

\* one pass of the epoch loop, lines 678-684: opt.t += 1 and the six adamStep
\* calls, each with the new opt.t
adamEpoch(c) ==
  [ c EXCEPT !.adam = [ t |-> @.t + 1, folded |-> @.folded + 1,
                        used |-> [ a \in ParamArrays |-> c.adam.t + 1 ] ],
             !.weights = [ @ EXCEPT !.step = @ + 1 ] ]

\* finishEpisode after the loop resetting the count and not the list
finishEpisodeTail_keepsList(c, currentPolicy) ==
  [ c EXCEPT !.batchEpisodes = 0, !.std = StdDecay(@, currentPolicy) ]

\* finishEpisode after the loop: clear the batch, decay the exploration noise
finishEpisodeTail(c, currentPolicy) ==
  [ c EXCEPT !.batchTraj = <<>>, !.batchEpisodes = 0, !.std = StdDecay(@, currentPolicy) ]

\* [...prev, point].slice(-maxHistory)
PushHistory(h, point) ==
  LET all == Append(h, point)
  IN IF Len(all) <= maxHistory THEN all
     ELSE SubSeq(all, Len(all) - maxHistory + 1, Len(all))

\* handleEpisodeEnd without its  if (!isRunning) return
handleEpisodeEnd_ignoresStop(c, res) ==
  LET reward == IF res = "goal" THEN 1 ELSE -1
      c1 == [ c EXCEPT !.episodes = @ + 1,
                       !.goals = IF res = "goal" THEN @ + 1 ELSE @,
                       !.misses = IF res = "miss" THEN @ + 1 ELSE @,
                       !.rewardHistory = PushHistory(@, [reward |-> reward, result |-> res]) ]
  IN finishEpisode(c1, res)

\* handleEpisodeEnd(result) up to finishEpisode's epoch loop
handleEpisodeEnd(c, res) ==
  IF ~c.isRunning THEN [ c |-> c, fin |-> NoFin ]
  ELSE
    LET reward == IF res = "goal" THEN 1 ELSE -1
        c1 == [ c EXCEPT !.episodes = @ + 1,
                         !.goals = IF res = "goal" THEN @ + 1 ELSE @,
                         !.misses = IF res = "miss" THEN @ + 1 ELSE @,
                         !.rewardHistory = PushHistory(@, [reward |-> reward, result |-> res]) ]
    IN finishEpisode(c1, res)

(***************************************************************************)
(* RoboticArm.tsx: the physics component.                                  *)
(***************************************************************************)
\* phys.current as useRef creates it, before any resize(): the second effect
\* has not run yet, or has returned early for want of a 2d context
UnsizedPhys ==
  [ width |-> 0, height |-> 0,
    goalX |-> 0,
    targetX |-> 0, targetY |-> 0,
    theta |-> 1,
    ball |-> [ x |-> 0, y |-> 0, vx |-> 0, vy |-> 0, active |-> FALSE ] ]

\* phys.current after the first effect has run resize() for window size <<w, h>>
InitPhys(w, h) ==
  [ width |-> w, height |-> h,
    goalX |-> Px(w) \div 2 - Px(GoalWidth) \div 2,
    targetX |-> 0, targetY |-> 0,
    theta |-> 1,
    ball |-> [ x |-> 0, y |-> 0, vx |-> 0, vy |-> 0, active |-> FALSE ] ]

\* resize(): the window's size, and the goal re-centred
resize(p, w, h) ==
  [ p EXCEPT !.width = w, !.height = h, !.goalX = Px(w) \div 2 - Px(GoalWidth) \div 2 ]

\* resetEpisode() with its three Math.random() draws
resetEpisode(p, off, vx, vy) ==
  [ p EXCEPT !.ball = [ x |-> Px(p.width) \div 2 + Px(off),
                        y |-> Min(Px(p.height) \div 2 - Px(ResetDrop), Px(ResetCeil)),
                        vx |-> vx, vy |-> vy, active |-> TRUE ],
             !.targetX = Px(p.width) \div 2,
             !.targetY = Px(p.height) \div 2 ]

\* Forward kinematics of the sampled joint angles (theta1, theta2), as offsets
\* from the arm base in px: the elbow l1 * (cos theta1, sin theta1) and the
\* effector, the elbow plus l2 * (cos(theta1 + theta2), sin(theta1 + theta2)).
\*   1: (pi/2, pi/4), the angles phys starts with
\*   2: (-2.723, 2.545), solveIK of the centre of a 240 x 320 viewport
\*   3: (-2.907, 2.169), solveIK of the target (40, 80) of a 240 x 320 viewport
\*   4, 5, 6: the angles one, two and three ticks after 3 when the target is
\*      the centre again, each tick theta += (solveIK(centre) - theta) * 0.12:
\*      (-2.885, 2.214), (-2.866, 2.254), (-2.849, 2.289)
ArmTable ==
  <<[ j1x |-> 0, j1y |-> L1, ex |-> -184, ey |-> L1 + 184 ],
    [ j1x |-> -256, j1y |-> -114, ex |-> 0, ey |-> -160 ],
    [ j1x |-> -272, j1y |-> -65, ex |-> -80, ey |-> -240 ],
    [ j1x |-> -271, j1y |-> -71, ex |-> -67, ey |-> -233 ],
    [ j1x |-> -269, j1y |-> -76, ex |-> -57, ey |-> -226 ],
    [ j1x |-> -268, j1y |-> -81, ex |-> -48, ey |-> -219 ]>>

\* updatePhysics, lines 119-124: base, elbow and effector, in length units
Arm(p) ==
  LET bx == Px(p.width) \div 2
      by == Px(p.height)
      a == ArmTable[p.theta]
  IN [ bx |-> bx, by |-> by,
       j1x |-> bx + Px(a.j1x), j1y |-> by + Px(a.j1y),
       ex |-> bx + Px(a.ex), ey |-> by + Px(a.ey) ]

\* the PhysicsState built after the ball has moved
Snapshot_afterMotion(p) ==
  [ ball |-> [ p.ball EXCEPT !.x = @ + p.ball.vx, !.y = @ + p.ball.vy + Gravity,
                             !.vy = @ + Gravity ],
    effector |-> [ x |-> Arm(p).ex, y |-> Arm(p).ey ],
    goal |-> [ x |-> p.goalX, y |-> Px(GoalY), width |-> Px(GoalWidth), height |-> Px(GoalHeight) ],
    viewport |-> [ width |-> p.width, height |-> p.height ] ]

\* the PhysicsState built for onGetAction
Snapshot(p) ==
  [ ball |-> p.ball,
    effector |-> [ x |-> Arm(p).ex, y |-> Arm(p).ey ],
    goal |-> [ x |-> p.goalX, y |-> Px(GoalY), width |-> Px(GoalWidth), height |-> Px(GoalHeight) ],
    viewport |-> [ width |-> p.width, height |-> p.height ] ]

\* lines 133-134: the action added to the IK target, clamped to the viewport
applyAction(p, dx, dy) ==
  [ p EXCEPT !.targetX = Max(0, Min(Px(p.width), p.targetX + Px(dx))),
             !.targetY = Max(0, Min(Px(p.height), p.targetY + Px(dy))) ]

\* collideSegment(ax, ay, bx2, by2, radius) on ball b; kick is its Math.random draw.
\* t is held in thousandths of the segment.
collideSegment(b, ax, ay, bx2, by2, radius, kick) ==
  LET abx == bx2 - ax
      aby == by2 - ay
      apx == b.x - ax
      apy == b.y - ay
      abLenSq == IF abx * abx + aby * aby = 0 THEN 1 ELSE abx * abx + aby * aby
      dot == apx * abx + apy * aby
      t == IF dot <= 0 THEN 0
           ELSE IF dot >= abLenSq THEN 1000
           ELSE Min(1000, dot \div Max(1, abLenSq \div 1000))
      cx == ax + Scale(abx, t, 1000)
      cy == ay + Scale(aby, t, 1000)
      dx == b.x - cx
      dy == b.y - cy
  IN IF Abs(dx) >= radius \/ Abs(dy) >= radius \/ dx * dx + dy * dy >= radius * radius
     THEN b
     ELSE
       LET dist == ISqrt(dx * dx + dy * dy)
           push == radius + Px(1) \div 2
           px == IF dist = 0 THEN cx ELSE cx + Scale(dx, push, dist)
           py == IF dist = 0 THEN cy - push ELSE cy + Scale(dy, push, dist)
           \* vRel = vx * nx + vy * ny, with n = (dx, dy) / dist, or (0, -1)
           vRel == IF dist = 0 THEN -b.vy ELSE Scale(b.vx * dx + b.vy * dy, 1, dist)
           rx == IF dist = 0 THEN 0 ELSE Scale(2 * vRel, dx, dist)
           ry == IF dist = 0 THEN -2 * vRel ELSE Scale(2 * vRel, dy, dist)
       IN IF vRel < 0
          THEN [ b EXCEPT !.x = px, !.y = py,
                          !.vx = b.vx - rx + kick,
                          !.vy = b.vy - ry - Px(ContactLift) ]
          ELSE [ b EXCEPT !.x = px, !.y = py ]

\* the ball after gravity and motion, lines 142-144
advanceBall(p) ==
  LET b0 == [ p.ball EXCEPT !.vy = @ + Gravity ]
  IN [ b0 EXCEPT !.x = @ + b0.vx, !.y = @ + b0.vy ]

\* one of the two collideSegment calls of lines 174-175 returns true
armContact(p, arm) ==
  LET armRadius == Px(BallRadius) + Px(ArmPadding)
      b1 == advanceBall(p)
      b2 == collideSegment(b1, arm.bx, arm.by, arm.j1x, arm.j1y, armRadius, 0)
      b3 == collideSegment(b2, arm.j1x, arm.j1y, arm.ex, arm.ey, armRadius, 0)
  IN b2 # b1 \/ b3 # b2

\* moveBall with the walls inverting vx at full speed
moveBall_fullRebound(p, arm, kick1, kick2) ==
  LET b1 == advanceBall(p)
      armRadius == Px(BallRadius) + Px(ArmPadding)
      b2 == collideSegment(b1, arm.bx, arm.by, arm.j1x, arm.j1y, armRadius, kick1)
      b3 == collideSegment(b2, arm.j1x, arm.j1y, arm.ex, arm.ey, armRadius, kick2)
  IN IF b3.x - Px(BallRadius) < 0 \/ b3.x + Px(BallRadius) > Px(p.width)
     THEN [ b3 EXCEPT !.vx = -@ ]
     ELSE b3

\* updatePhysics, lines 141-179: gravity, motion, the two arm segments, the walls
moveBall(p, arm, kick1, kick2) ==
  LET b1 == advanceBall(p)
      armRadius == Px(BallRadius) + Px(ArmPadding)
      b2 == collideSegment(b1, arm.bx, arm.by, arm.j1x, arm.j1y, armRadius, kick1)
      b3 == collideSegment(b2, arm.j1x, arm.j1y, arm.ex, arm.ey, armRadius, kick2)
  IN IF b3.x - Px(BallRadius) < 0 \/ b3.x + Px(BallRadius) > Px(p.width)
     THEN [ b3 EXCEPT !.vx = -Scale(@, WallRestitution, 100) ]
     ELSE b3

\* line 181: the ball's bottom edge is below the floor
missCondition(p) == p.ball.y + Px(BallRadius) > Px(p.height)

\* lines 186-190: the ball is in the goal's column and its top edge above the goal's lower edge
goalCondition(p) ==
  /\ p.ball.y - Px(BallRadius) < Px(GoalY) + Px(GoalHeight)
  /\ p.ball.x > p.goalX
  /\ p.ball.x < p.goalX + Px(GoalWidth)

\* loop running Math.max(1, Math.floor(simulationSpeed)) calls whether or not
\* training runs
loops_ignoresRunning(isRunning, simulationSpeed) == Max(1, simulationSpeed)

\* loop: updatePhysics calls per frame
loops(isRunning, simulationSpeed) == IF isRunning THEN Max(1, simulationSpeed) ELSE 1

(***************************************************************************)
(* The frame callback, step by step.                                       *)
(***************************************************************************)
None == "none"

\* no learning update has begun
NoUpdates == [ p \in Policies |-> 0 ]

\* no function is being applied on its own
NoInput == [ kind |-> "none" ]
NoOutput == [ kind |-> "none" ]

\* updatePhysics returns: the next call of this frame, or the frame is over
TickDone ==
  /\ stepsLeft' = stepsLeft - 1
  /\ pc' = IF stepsLeft - 1 > 0 THEN "tick" ELSE "idle"
  /\ result' = None
  /\ frame' = None
  /\ action' = None
  /\ pre' = None
  /\ nActions' = 0

\* loop: the browser runs the requestAnimationFrame callback
BeginFrame ==
  /\ pc = "idle"
  /\ epId < MaxResets
  /\ stepsLeft' = loops(ctl.isRunning, ctl.speed)
  /\ pc' = "tick"
  /\ UNCHANGED <<ctl, phys, result, fin, frame, action, hist, pure>>

\* updatePhysics, lines 117-135: the effector, and with isRunning and an active
\* ball the onGetAction call and the move of the IK target
RequestAction ==
  /\ pc = "tick"
  /\ pre' = phys
  /\ IF ctl.isRunning /\ phys.ball.active
     THEN \E d \in ActionDeltas :
            /\ frame' = Snapshot(phys)
            /\ ctl' = onGetAction(ctl, Snapshot(phys), epId, session)
            /\ action' = d
            /\ phys' = applyAction(phys, d[1], d[2])
            /\ nActions' = nActions + 1
            /\ sinceEmpty' = sinceEmpty + 1
     ELSE UNCHANGED <<frame, ctl, action, phys, nActions, sinceEmpty>>
  /\ pc' = "move"
  /\ UNCHANGED <<stepsLeft, result, fin, epId, session, updates, pure>>

\* updatePhysics, lines 137-190: the joint angles follow solveIK of the target
\* (any sampled pair), the ball moves against the arm as it stood at line 124,
\* and the two terminal conditions are evaluated: a miss calls onEpisodeEnd at
\* once, a goal if there was no miss
Integrate ==
  /\ pc = "move"
  /\ \E th \in Thetas, k1 \in ContactKicks, k2 \in ContactKicks :
       phys' = [ phys EXCEPT !.theta = th,
                             !.ball = IF phys.ball.active
                                      THEN moveBall(phys, Arm(phys), k1, k2)
                                      ELSE @ ]
  /\ IF phys.ball.active /\ missCondition(phys')
     THEN pc' = "end" /\ result' = "miss" /\ UNCHANGED <<stepsLeft, frame, action, pre, nActions>>
     ELSE IF phys.ball.active /\ goalCondition(phys')
     THEN pc' = "end" /\ result' = "goal" /\ UNCHANGED <<stepsLeft, frame, action, pre, nActions>>
     ELSE TickDone
  /\ UNCHANGED <<ctl, fin, epId, session, sinceEmpty, updates, pure>>

\* onEpisodeEnd(result): handleEpisodeEnd, and finishEpisode up to its epoch loop
EpisodeEnd ==
  /\ pc = "end"
  /\ LET r == handleEpisodeEnd(ctl, result)
     IN /\ ctl' = r.c
        /\ fin' = r.fin
        /\ pc' = IF r.fin.active THEN "adam" ELSE "reset"
  /\ sinceEmpty' = IF ctl.isRunning /\ ctl.trajectory # <<>> THEN 0 ELSE sinceEmpty
  /\ updates' = IF handleEpisodeEnd(ctl, result).fin.active
                THEN [ updates EXCEPT ![ctl.policy] = @ + 1 ]
                ELSE updates
  /\ UNCHANGED <<phys, stepsLeft, result, frame, action, pre, nActions, epId, session, pure>>

\* finishEpisode, lines 596-685: one epoch
AdamEpoch ==
  /\ pc = "adam"
  /\ fin.epoch < fin.epochs
  /\ ctl' = adamEpoch(ctl)
  /\ fin' = [ fin EXCEPT !.epoch = @ + 1 ]
  /\ UNCHANGED <<phys, pc, stepsLeft, result, frame, action, hist, pure>>

\* finishEpisode, lines 687-691
FinishTail ==
  /\ pc = "adam"
  /\ fin.epoch = fin.epochs
  /\ ctl' = finishEpisodeTail(ctl, fin.currentPolicy)
  /\ fin' = NoFin
  /\ pc' = "reset"
  /\ UNCHANGED <<phys, stepsLeft, result, frame, action, hist, pure>>

\* the resetEpisode() call that follows onEpisodeEnd; after a miss the goal
\* condition of lines 186-190 is evaluated on the ball just reset
ResetEpisode ==
  /\ pc = "reset"
  /\ \E r \in ResetDraws : phys' = resetEpisode(phys, r[1], r[2], r[3])
  /\ epId' = epId + 1
  /\ IF result = "miss" /\ goalCondition(phys')
     THEN pc' = "end" /\ result' = "goal" /\ UNCHANGED <<stepsLeft, frame, action, pre, nActions>>
     ELSE TickDone
  /\ UNCHANGED <<ctl, fin, session, sinceEmpty, updates, pure>>

(***************************************************************************)
(* The user's events, between frames.                                      *)
(***************************************************************************)
\* Start Policy: startTraining, with its simControlRef.current.reset()
StartTraining ==
  /\ pc = "idle"
  /\ ~ctl.isRunning
  /\ session < MaxStarts
  /\ ctl' = startTraining(ctl, session + 1)
  /\ \E r \in ResetDraws : phys' = resetEpisode(phys, r[1], r[2], r[3])
  /\ session' = session + 1
  /\ epId' = epId + 1
  /\ sinceEmpty' = 0
  /\ updates' = NoUpdates
  /\ UNCHANGED <<pc, stepsLeft, result, fin, frame, action, pre, nActions, pure>>

\* Stop Policy
StopTraining ==
  /\ pc = "idle"
  /\ ctl.isRunning
  /\ ctl' = stopTraining(ctl)
  /\ UNCHANGED <<phys, pc, stepsLeft, result, fin, frame, action, hist, pure>>

\* a click on one of the two policy buttons
PolicySwitch ==
  /\ pc = "idle"
  /\ \E next \in Policies :
       /\ ctl' = handlePolicySwitch(ctl, next)
       /\ sinceEmpty' = IF next # ctl.policy /\ ctl.isRunning THEN 0 ELSE sinceEmpty
  /\ UNCHANGED <<phys, pc, stepsLeft, result, fin, frame, action, pre, nActions, epId, session, updates, pure>>

\* the speed slider
SpeedChange ==
  /\ pc = "idle"
  /\ \E s \in Speeds : ctl' = setSpeed(ctl, s)
  /\ UNCHANGED <<phys, pc, stepsLeft, result, fin, frame, action, hist, pure>>

\* the window's resize event
Resize ==
  /\ pc = "idle"
  /\ \E v \in Viewports : phys' = resize(phys, v[1], v[2])
  /\ UNCHANGED <<ctl, pc, stepsLeft, result, fin, frame, action, hist, pure>>

Init ==
  /\ ctl = InitCtl
  /\ \E v \in Viewports : phys = InitPhys(v[1], v[2])
  /\ pc = "idle"
  /\ stepsLeft = 0
  /\ result = None
  /\ fin = NoFin
  /\ frame = None
  /\ action = None
  /\ pre = None
  /\ nActions = 0
  /\ epId = 0
  /\ session = 0
  /\ sinceEmpty = 0
  /\ updates = NoUpdates
  /\ inp = NoInput
  /\ out = NoOutput

Next ==
  \/ BeginFrame
  \/ RequestAction
  \/ Integrate
  \/ EpisodeEnd
  \/ AdamEpoch
  \/ FinishTail
  \/ ResetEpisode
  \/ StartTraining
  \/ StopTraining
  \/ PolicySwitch
  \/ SpeedChange
  \/ Resize

Spec == Init /\ [][Next]_vars
(***************************************************************************)
(* The functions of the learning update, applied on their own to arguments *)
(* drawn from bounded sets.                                                *)
(***************************************************************************)
\* importance ratios, in 1/1000: around 1 - clip, 1 and 1 + clip, and far off
Ratios == {0, 500, 799, 800, 801, 1000, 1199, 1200, 1201, 2500}
\* normalised advantages, in 1/1000
Advs == {-1500, -1, 0, 1, 1500}
\* log-probabilities of a stored action, in 1/100
LogProbs == {-350, -200, -182, -150}
\* rewards of a step record, in 1/1000
Rewards == {-1000, -250, 0, 1000}
\* steps of a trajectory and trajectories of a batch
MaxSteps == 3
MaxBatch == 2

\* trajectories of 1 .. MaxSteps records, of which only the reward is read
Trajectories ==
  UNION { [1..n -> [reward : Rewards]] : n \in 1..MaxSteps }

Batches ==
  UNION { [1..n -> Trajectories] : n \in 1..MaxBatch }

GradScaleInputs ==
  [ kind : {"gradScale"}, policy : Policies, ratio : Ratios, adv : Advs ]

SampleInputs ==
  [ kind : {"sample"}, policy : Policies, oldLogP : LogProbs, newLogP : LogProbs, adv : Advs ]

ReturnsInputs ==
  [ kind : {"returns"}, batch : Batches ]

\* lines 621-636 for one sample whose ratio is given
ApplyGradScale ==
  /\ inp.kind = "gradScale"
  /\ out = NoOutput
  /\ out' = [ kind |-> "gradScale", grad |-> gradScale(inp.policy, inp.ratio, inp.adv) ]
  /\ UNCHANGED <<ctl, phys, pc, stepsLeft, result, fin, frame, action, hist, inp>>

\* lines 615-636 for one sample: the new log-probability, the ratio, the scale
ApplySample ==
  /\ inp.kind = "sample"
  /\ out = NoOutput
  /\ LET ratio == importanceRatio(inp.newLogP, inp.oldLogP)
     IN out' = [ kind |-> "sample", ratio |-> ratio,
                 grad |-> gradScale(inp.policy, ratio, inp.adv) ]
  /\ UNCHANGED <<ctl, phys, pc, stepsLeft, result, fin, frame, action, hist, inp>>

\* lines 557-569 for one batch
ApplyReturns ==
  /\ inp.kind = "returns"
  /\ out = NoOutput
  /\ out' = [ kind |-> "returns", returnsPerTraj |-> ReturnsPerTraj(inp.batch) ]
  /\ UNCHANGED <<ctl, phys, pc, stepsLeft, result, fin, frame, action, hist, inp>>

\* phys.current when controlRef.current.reset() is called: not yet sized, or
\* sized and at rest
ResetInputs ==
  [ kind : {"resetEpisode"},
    phys : {UnsizedPhys} \cup { InitPhys(v[1], v[2]) : v \in Viewports },
    draw : ResetDraws ]

\* balls at and near the left wall, in length units and length units per tick
WallBalls ==
  [ x : {Px(BallRadius), Px(BallRadius) + Px(10)},
    y : {Px(60), Px(150), Px(200)},
    vx : {-Px(5), -Px(1), Px(5)},
    vy : {-Px(2), Px(2)},
    active : {TRUE} ]

\* phys.current at the start of a tick with the ball at or near the left wall
TickInputs ==
  [ kind : {"tick"},
    phys : { [ InitPhys(v[1], v[2]) EXCEPT !.ball = b, !.theta = th ] :
               v \in Viewports, b \in WallBalls, th \in Thetas },
    kicks : ContactKicks \X ContactKicks ]

\* resetEpisode(), lines 46-55, for the three draws given
ApplyReset ==
  /\ inp.kind = "resetEpisode"
  /\ out = NoOutput
  /\ out' = [ kind |-> "resetEpisode",
              phys |-> resetEpisode(inp.phys, inp.draw[1], inp.draw[2], inp.draw[3]) ]
  /\ UNCHANGED <<ctl, phys, pc, stepsLeft, result, fin, frame, action, hist, inp>>

\* updatePhysics, lines 141-190, for a ball that is active: the ball as the
\* walls leave it, whether the arm was touched, and the outcome raised
ApplyTick ==
  /\ inp.kind = "tick"
  /\ out = NoOutput
  /\ LET arm == Arm(inp.phys)
         moved == [ inp.phys EXCEPT !.ball = moveBall(inp.phys, arm, inp.kicks[1], inp.kicks[2]) ]
     IN out' = [ kind |-> "tick",
                 ball |-> moved.ball,
                 touched |-> armContact(inp.phys, arm),
                 outcome |-> IF missCondition(moved) THEN "miss"
                             ELSE IF goalCondition(moved) THEN "goal"
                             ELSE "none" ]
  /\ UNCHANGED <<ctl, phys, pc, stepsLeft, result, fin, frame, action, hist, inp>>

\* RoboticArmInteractive: the goal's width, and the ball's start, 250 px right
\* of the centre and min(height / 2 - 50, 300) px down
InteractiveGoalWidth == 200
StartOffset == 250
StartDrop == 50
StartCeil == 300

\* RoboticArmInteractive's resize moving the ball whatever the game state
resizeInteractive_movesBall(g, w, h) ==
  LET startX == Px(w) \div 2 + Px(StartOffset)
      startY == Min(Px(h) \div 2 - Px(StartDrop), Px(StartCeil))
  IN [ g EXCEPT !.width = w, !.height = h,
                !.ball = [ @ EXCEPT !.startX = startX, !.startY = startY,
                                    !.x = startX, !.y = startY ],
                !.goalX = Px(w) \div 2 - Px(InteractiveGoalWidth) \div 2 ]

\* RoboticArmInteractive, resize, lines 379-403, on viewportRef, ball, goal
\* and gameStateRef
resizeInteractive(g, w, h) ==
  LET startX == Px(w) \div 2 + Px(StartOffset)
      startY == Min(Px(h) \div 2 - Px(StartDrop), Px(StartCeil))
  IN [ g EXCEPT !.width = w, !.height = h,
                !.ball = [ @ EXCEPT !.startX = startX, !.startY = startY,
                                    !.x = IF g.gameState = "waiting" THEN startX ELSE @,
                                    !.y = IF g.gameState = "waiting" THEN startY ELSE @ ],
                !.goalX = Px(w) \div 2 - Px(InteractiveGoalWidth) \div 2 ]

\* RoboticArmInteractive as its effect's first resize() leaves it
InitInteractive(w, h) ==
  resizeInteractive([ width |-> 0, height |-> 0, goalX |-> 0, gameState |-> "waiting",
                      ball |-> [ x |-> 0, y |-> 0, vx |-> 0, vy |-> 0,
                                 startX |-> 0, startY |-> 0 ] ], w, h)

\* type GameState
GameStates == {"waiting", "playing", "ended"}

\* RoboticArmInteractive when a resize event comes: waiting with the ball at
\* its start, or the ball in flight or stopped where the game ended
InteractiveStates ==
  { InitInteractive(v[1], v[2]) : v \in Viewports }
    \cup { [ InitInteractive(v[1], v[2]) EXCEPT !.gameState = s,
                                               !.ball.x = b.x, !.ball.y = b.y,
                                               !.ball.vx = b.vx, !.ball.vy = b.vy ] :
             v \in Viewports, s \in {"playing", "ended"}, b \in WallBalls }

\* the window's new size, for each of the two components
ResizeInputs ==
  [ kind : {"resize"},
    phys : { [ InitPhys(v[1], v[2]) EXCEPT !.ball = b ] : v \in Viewports, b \in WallBalls }
             \cup { InitPhys(v[1], v[2]) : v \in Viewports },
    size : Viewports ]
    \cup [ kind : {"resizeInteractive"}, game : InteractiveStates, size : Viewports ]

\* one resize event, and the same event handled a second time
ApplyResize ==
  /\ inp.kind \in {"resize", "resizeInteractive"}
  /\ out = NoOutput
  /\ out' = IF inp.kind = "resize"
            THEN LET once == resize(inp.phys, inp.size[1], inp.size[2])
                 IN [ kind |-> "resize", once |-> once,
                      twice |-> resize(once, inp.size[1], inp.size[2]) ]
            ELSE LET once == resizeInteractive(inp.game, inp.size[1], inp.size[2])
                 IN [ kind |-> "resizeInteractive", once |-> once,
                      twice |-> resizeInteractive(once, inp.size[1], inp.size[2]) ]
  /\ UNCHANGED <<ctl, phys, pc, stepsLeft, result, fin, frame, action, hist, inp>>

\* lines 162-168 of the two collideSegment calls: which segment changed the
\* ball's velocity
segmentImpulses(p, arm) ==
  LET armRadius == Px(BallRadius) + Px(ArmPadding)
      b1 == advanceBall(p)
      b2 == collideSegment(b1, arm.bx, arm.by, arm.j1x, arm.j1y, armRadius, 0)
      b3 == collideSegment(b2, arm.j1x, arm.j1y, arm.ex, arm.ey, armRadius, 0)
  IN [ upper |-> (b2.vx # b1.vx \/ b2.vy # b1.vy),
       lower |-> (b3.vx # b2.vx \/ b3.vy # b2.vy) ]

\* the joint angles of the ticks that follow a reset, when the episode before
\* ended with the arm at rest on the target (40, 80)
SweepThetas == <<3, 4, 5, 6>>

\* updatePhysics called once for each of thetas with training stopped, up to
\* the call that ends the episode: the impulses of each call
RECURSIVE sweepTicks(_, _, _)
sweepTicks(p, thetas, kick) ==
  IF thetas = <<>> THEN <<>>
  ELSE LET p1 == [ p EXCEPT !.theta = Head(thetas) ]
           p2 == [ p1 EXCEPT !.ball = moveBall(p1, Arm(p1), kick, kick) ]
       IN <<segmentImpulses(p1, Arm(p1))>>
            \o (IF missCondition(p2) \/ goalCondition(p2)
                THEN <<>>
                ELSE sweepTicks(p2, Tail(thetas), kick))

\* phys.current after resetEpisode() in the 240 x 320 viewport
SweepInputs ==
  [ kind : {"sweep"},
    phys : { resetEpisode(InitPhys(240, 320), r[1], r[2], r[3]) : r \in ResetDraws },
    kick : ContactKicks ]

\* the ticks that follow a reset while the arm returns to the centre
ApplySweep ==
  /\ inp.kind = "sweep"
  /\ out = NoOutput
  /\ out' = [ kind |-> "sweep",
              impulses |-> sweepTicks(inp.phys, SweepThetas, inp.kick) ]
  /\ UNCHANGED <<ctl, phys, pc, stepsLeft, result, fin, frame, action, hist, inp>>

\* cosines and sines are held in 1/10000; an angle is held as the pair
\* [c, s] of its cosine and sine
Trig(n) == 10000 * n

\* solveIK: maxReach = l1 + l2 - 2
ReachMargin == 2

\* Math.acos(Math.max(-1, Math.min(1, c))), an angle in [0, pi]
acosClamped(c) ==
  LET cc == clamp(c, -Trig(1), Trig(1))
  IN [ c |-> cc, s |-> ISqrt(Trig(1) * Trig(1) - cc * cc) ]

\* the angle a - b
angleMinus(a, b) ==
  [ c |-> Scale(a.c, b.c, Trig(1)) + Scale(a.s, b.s, Trig(1)),
    s |-> Scale(a.s, b.c, Trig(1)) - Scale(a.c, b.s, Trig(1)) ]

\* the angle a + b
anglePlus(a, b) ==
  [ c |-> Scale(a.c, b.c, Trig(1)) - Scale(a.s, b.s, Trig(1)),
    s |-> Scale(a.s, b.c, Trig(1)) + Scale(a.c, b.s, Trig(1)) ]

\* solveIK(tx, ty), lines 90-114, for the target at (dx0, dy0) from the arm
\* base, in length units: t1 = alpha - beta and t2 = pi - gamma
solveIK(dx0, dy0) ==
  LET dist0 == ISqrt(dx0 * dx0 + dy0 * dy0)
      maxReach == Px(L1) + Px(L2) - Px(ReachMargin)
      over == dist0 > maxReach
      dx == IF over THEN Scale(dx0, maxReach, dist0) ELSE dx0
      dy == IF over THEN Scale(dy0, maxReach, dist0) ELSE dy0
      dist == IF over THEN maxReach ELSE dist0
      \* Math.atan2(dy, dx), and atan2(0, 0) = 0
      alpha == IF dist = 0 THEN [ c |-> Trig(1), s |-> 0 ]
               ELSE [ c |-> Scale(dx, Trig(1), dist), s |-> Scale(dy, Trig(1), dist) ]
      \* dist = 0 divides by zero: cosBeta is +Infinity, and the clamp makes it 1
      denB == (2 * dist * Px(L1)) \div Trig(1)
      cosBeta == IF denB = 0 THEN Trig(1)
                 ELSE (dist * dist + Px(L1) * Px(L1) - Px(L2) * Px(L2)) \div denB
      denG == (2 * Px(L1) * Px(L2)) \div Trig(1)
      numG == Px(L1) * Px(L1) + Px(L2) * Px(L2) - dist * dist
      cosGamma == IF numG >= 0 THEN numG \div denG ELSE -((-numG) \div denG)
      beta == acosClamped(cosBeta)
      gamma == acosClamped(cosGamma)
  IN [ t1 |-> angleMinus(alpha, beta),
       t2 |-> [ c |-> -gamma.c, s |-> gamma.s ] ]

\* updatePhysics, lines 119-124: elbow and effector from the arm base, in
\* length units, for the joint angles t1 and t2
forwardKinematics(t1, t2) ==
  LET t12 == anglePlus(t1, t2)
      j1x == Scale(Px(L1), t1.c, Trig(1))
      j1y == Scale(Px(L1), t1.s, Trig(1))
  IN [ j1x |-> j1x, j1y |-> j1y,
       ex |-> j1x + Scale(Px(L2), t12.c, Trig(1)),
       ey |-> j1y + Scale(Px(L2), t12.s, Trig(1)) ]

\* IK targets in a 1280 x 900 viewport, as offsets from the arm base
\* (640, 900) in px: straight above the base and along a 3 : 4 : 5 direction,
\* up to the distance l1 + l2 = 540, and nearer than l1 - l2 = 20
IKTargets ==
  { <<0, -d>> : d \in {0, 10, 20, 21, 100, 300, 500, 537, 538, 539, 540, 600} }
    \cup { <<3 * k, -4 * k>> : k \in {4, 5, 60, 100, 107, 108} }
    \cup { <<-4 * k, -3 * k>> : k \in {4, 5, 60, 100, 107, 108} }

IKInputs == [ kind : {"ik"}, target : IKTargets ]

\* solveIK of a target, and the effector those angles give
ApplyIK ==
  /\ inp.kind = "ik"
  /\ out = NoOutput
  /\ LET ik == solveIK(Px(inp.target[1]), Px(inp.target[2]))
     IN out' = [ kind |-> "ik", t1 |-> ik.t1, t2 |-> ik.t2,
                 arm |-> forwardKinematics(ik.t1, ik.t2) ]
  /\ UNCHANGED <<ctl, phys, pc, stepsLeft, result, fin, frame, action, hist, inp>>

\* RoboticArmInteractive, collideSegment: ms between two hits
MinHitGapMs == 60
\* RoboticArmInteractive, FRAME_MS = 1000 / 60: frames per 1000 ms
FramesPerSecond == 60
\* RoboticArmInteractive, render: the cap of dt, in frames
DtCap == 2

\* render keeping the time it has not integrated: lastTime moved on by the
\* time integrated only
renderFrame_carriesExcess(lastTime, time) ==
  LET dt == Min(1000 * DtCap, (time - lastTime) * FramesPerSecond)
  IN [ dt |-> dt, lastTime |-> lastTime + dt \div FramesPerSecond ]

\* RoboticArmInteractive, render, lines 443-446: dt in 1/1000 frame for the
\* timestamps in ms,  Math.min(2, (time - lastTime) / FRAME_MS),  and
\* lastTime = time
renderFrame(lastTime, time) ==
  [ dt |-> Min(1000 * DtCap, (time - lastTime) * FramesPerSecond),
    lastTime |-> time ]

\* the dt of each of a run of frames that come gaps[i] ms after the one before
\* now is the time of the frame before
RECURSIVE renderFrames(_, _, _)
renderFrames(lastTime, now, gaps) ==
  IF gaps = <<>> THEN <<>>
  ELSE LET time == now + Head(gaps)
           r == renderFrame(lastTime, time)
       IN <<r.dt>> \o renderFrames(r.lastTime, time, Tail(gaps))

\* RoboticArm, loop, lines 198-202: the updatePhysics calls of each of a run of
\* frames; the callback does not read the time
loopFrames(isRunning, simulationSpeed, gaps) ==
  [ i \in 1..Len(gaps) |-> loops(isRunning, simulationSpeed) ]

\* ms between two animation frames: a 60 Hz display, a 30 Hz one, a tab
\* that was in the background
GapsMs == {16, 17, 33, 34, 5000}
MaxFrames == 2

FramesInputs ==
  [ kind : {"frames"}, isRunning : BOOLEAN, value : {SliderMin, SliderMax},
    gaps : UNION { [1..n -> GapsMs] : n \in 1..MaxFrames } ]

\* a run of animation frames, for RoboticArm's loop and for
\* RoboticArmInteractive's render
ApplyFrames ==
  /\ inp.kind = "frames"
  /\ out = NoOutput
  /\ out' = [ kind |-> "frames",
              steps |-> loopFrames(inp.isRunning, inp.value, inp.gaps),
              dts |-> renderFrames(0, 0, inp.gaps) ]
  /\ UNCHANGED <<ctl, phys, pc, stepsLeft, result, fin, frame, action, hist, inp>>

\* a slider position, and whether training runs
LoopsInputs ==
  [ kind : {"loops"}, isRunning : BOOLEAN, value : SliderValues ]

\* setSpeed(Number(e.target.value)), the render that passes the speed on as
\* simulationSpeed, and the loop count of the next frame
ApplyLoops ==
  /\ inp.kind = "loops"
  /\ out = NoOutput
  /\ LET c == setSpeed([ InitCtl EXCEPT !.isRunning = inp.isRunning ], inp.value)
     IN out' = [ kind |-> "loops", loops |-> loops(c.isRunning, c.speed) ]
  /\ UNCHANGED <<ctl, phys, pc, stepsLeft, result, fin, frame, action, hist, inp>>

InitPure ==
  /\ ctl = InitCtl
  /\ phys = InitPhys(240, 320)
  /\ pc = "idle"
  /\ stepsLeft = 0
  /\ result = None
  /\ fin = NoFin
  /\ frame = None
  /\ action = None
  /\ pre = None
  /\ nActions = 0
  /\ epId = 0
  /\ session = 0
  /\ sinceEmpty = 0
  /\ updates = NoUpdates
  /\ inp \in GradScaleInputs \cup SampleInputs \cup ReturnsInputs
             \cup ResetInputs \cup TickInputs \cup LoopsInputs
             \cup FramesInputs \cup SweepInputs \cup ResizeInputs
             \cup IKInputs
  /\ out = NoOutput

NextPure ==
  \/ ApplyGradScale
  \/ ApplySample
  \/ ApplyReturns
  \/ ApplyReset
  \/ ApplyTick
  \/ ApplyLoops
  \/ ApplyFrames
  \/ ApplySweep
  \/ ApplyResize
  \/ ApplyIK

SpecPure == InitPure /\ [][NextPure]_vars

(***************************************************************************)
(* The physics on its own: the page after Start Policy and Stop Policy     *)
(* have been clicked before the first frame.  The ball is active, isRunning *)
(* is false, so that no action is asked for, one updatePhysics call is     *)
(* made per frame and handleEpisodeEnd returns at once.                    *)
(***************************************************************************)
\* window sizes: one lower than the goal's reach below a fresh ball, and a
\* large one
PhysViewports == {<<240, 100>>, <<1280, 900>>}

InitStopped ==
  /\ ctl = stopTraining(startTraining(InitCtl, 1))
  /\ \E v \in PhysViewports, r \in ResetDraws :
       phys = resetEpisode(InitPhys(v[1], v[2]), r[1], r[2], r[3])
  /\ pc = "idle"
  /\ stepsLeft = 0
  /\ result = None
  /\ fin = NoFin
  /\ frame = None
  /\ action = None
  /\ pre = None
  /\ nActions = 0
  /\ epId = 1
  /\ session = 1
  /\ sinceEmpty = 0
  /\ updates = NoUpdates
  /\ inp = NoInput
  /\ out = NoOutput

NextPhys ==
  \/ BeginFrame
  \/ RequestAction
  \/ Integrate
  \/ EpisodeEnd
  \/ ResetEpisode

SpecPhys == InitStopped /\ [][NextPhys]_vars

(***************************************************************************)
(* Late training: the page after Start Policy and LateUpdates episodes of  *)
(* one step each that ended in the goal, in plain policy-gradient mode     *)
(* (in a viewport lower than 316 px every tick is such an episode).  The   *)
(* exploration noise stands just above its floor.  The history counters    *)
(* epId and sinceEmpty count from the last reset on.                       *)
(***************************************************************************)
LateUpdates == 1007

\* stdRef.current after n more policy-gradient updates, from std (computed
\* by halves, each half evaluated before the other starts)
RECURSIVE StdAfter(_, _)
StdAfter(n, std) ==
  IF n = 0 THEN std
  ELSE IF n = 1 THEN StdDecay(std, "pg")
  ELSE LET half == StdAfter(n \div 2, std)
       IN IF half = half THEN StdAfter(n - (n \div 2), half) ELSE half

\* baselineRef.current after n more updates on a one-step episode that ended
\* in the goal, from baseline
RECURSIVE BaselineAfter(_, _)
BaselineAfter(n, baseline) ==
  IF n = 0 THEN baseline
  ELSE IF n = 1 THEN NewBaseline(baseline, << TerminalBump(<<[reward |-> 0]>>, "goal") >>)
  ELSE LET half == BaselineAfter(n \div 2, baseline)
       IN IF half = half THEN BaselineAfter(n - (n \div 2), half) ELSE half

\* the learner after n such episodes
LateCtl(n) ==
  [ startTraining(InitCtl, 1) EXCEPT
      !.episodes = n, !.goals = n,
      !.rewardHistory = [ i \in 1..Min(n, maxHistory) |-> [reward |-> 1, result |-> "goal"] ],
      !.weights = [ @ EXCEPT !.step = n ],
      !.adam = [ t |-> n, folded |-> n, used |-> [ a \in ParamArrays |-> n ] ],
      !.std = StdAfter(n, StdInit),
      !.baseline = BaselineAfter(n, 0) ]

InitLate ==
  /\ ctl = LateCtl(LateUpdates)
  /\ \E v \in Viewports, r \in ResetDraws :
       phys = resetEpisode(InitPhys(v[1], v[2]), r[1], r[2], r[3])
  /\ pc = "idle"
  /\ stepsLeft = 0
  /\ result = None
  /\ fin = NoFin
  /\ frame = None
  /\ action = None
  /\ pre = None
  /\ nActions = 0
  /\ epId = 1
  /\ session = 1
  /\ sinceEmpty = 0
  /\ updates = [ NoUpdates EXCEPT !["pg"] = LateUpdates ]
  /\ inp = NoInput
  /\ out = NoOutput

SpecLate == InitLate /\ [][Next]_vars

(***************************************************************************)
(* Properties of the training loop.                                        *)
(***************************************************************************)
\* what the learner has learned
Learned(c) == <<c.weights, c.adam, c.baseline, c.std>>

\* the learner's episode buffers
Buffers(c) == <<c.trajectory, c.batchTraj, c.batchEpisodes>>

Range(s) == { s[i] : i \in 1..Len(s) }

\* every step record the learner holds
Records(c) == Range(c.trajectory) \cup Range(Flatten(c.batchTraj))

\* the terminal reward of an episode that ended with res, in 1/1000
TerminalReward(res) == IF res = "goal" THEN 1000 ELSE -1000

\* C1: the learning step of an episode that ends while training runs comes
\* after the tick's terminal check and is over before resetEpisode and before
\* the next onGetAction: an update is in progress only between an episode's
\* end and its reset, at the reset the trajectory has been moved out, no
\* trajectory holds records of two episodes, and while training runs the
\* trajectory's records are those of the episode under way.
C1_LearningStepOrder ==
  /\ fin.active => pc = "adam" /\ result \in {"goal", "miss"}
  /\ pc = "adam" => fin.active
  /\ (pc = "reset" /\ ctl.isRunning) => ctl.trajectory = <<>>
  /\ \A r1 \in Range(ctl.trajectory), r2 \in Range(ctl.trajectory) : r1.ep = r2.ep
  /\ \A i \in 1..Len(ctl.batchTraj) :
       \A r1 \in Range(ctl.batchTraj[i]), r2 \in Range(ctl.batchTraj[i]) : r1.ep = r2.ep
  /\ ctl.isRunning => \A r \in Range(ctl.trajectory) : r.ep = epId

\* an action sampled for an episode that follows a completed update
C1_Witness ==
  /\ pc = "move"
  /\ nActions = 1
  /\ ctl.weights.step >= 1
  /\ Len(ctl.trajectory) = 1
  /\ ctl.trajectory[1].ep = epId
  /\ ctl.trajectory[1].weights = ctl.weights

\* C2: an episode end that arrives while training is stopped leaves the
\* weights, the Adam state, the baseline, the std and the buffers as they
\* were; the next startTraining empties the trajectory and the batch, so that
\* no record collected before the stop is among those an update trains on.
C2_StoppedEpisodeEnd ==
  /\ [][ /\ (pc = "end" /\ ~ctl.isRunning) =>
              (Learned(ctl') = Learned(ctl) /\ Buffers(ctl') = Buffers(ctl) /\ ~fin'.active)
         /\ (~ctl.isRunning /\ ctl'.isRunning) =>
              (ctl'.trajectory = <<>> /\ ctl'.batchTraj = <<>>) ]_vars
  /\ [](ctl.isRunning => \A r \in Records(ctl) : r.sess = session)
  /\ [](\A r \in Range(Flatten(fin.trainBatch)) : r.sess = session)

\* an episode ends after Stop Policy, with the records of its first ticks held
C2_Witness ==
  /\ pc = "end"
  /\ ~ctl.isRunning
  /\ ctl.trajectory # <<>>
  /\ session >= 1

\* C3: a switch to the other policy mode while training runs leaves the
\* trajectory and the batch empty, the batch counter 0 and the baseline 0, so
\* that the learner's records are all of the mode in force; a click on the
\* mode already selected, like any event between frames that is neither
\* Start, Stop nor a change of mode, changes nothing of the learner.
C3_PolicySwitch ==
  /\ [][ /\ (ctl'.policy # ctl.policy /\ ctl.isRunning) =>
              /\ ctl'.trajectory = <<>>
              /\ ctl'.batchTraj = <<>>
              /\ ctl'.batchEpisodes = 0
              /\ ctl'.baseline = 0
         /\ (pc = "idle" /\ pc' = "idle" /\ ctl'.policy = ctl.policy
                /\ ctl'.isRunning = ctl.isRunning) =>
              (Learned(ctl') = Learned(ctl) /\ Buffers(ctl') = Buffers(ctl)) ]_vars
  /\ [](ctl.isRunning => \A r \in Records(ctl) : r.pol = ctl.policy)
  /\ [](\A r \in Range(Flatten(fin.trainBatch)) : r.pol = fin.currentPolicy)

\* training runs in single-episode mode after an episode ended without an
\* update: that episode was buffered in PPO mode and the switch discarded it
C3_Witness ==
  /\ pc = "idle"
  /\ ctl.isRunning
  /\ ctl.policy = "pg"
  /\ ctl.episodes >= 1
  /\ ctl.weights.step = 0
  /\ ctl.trajectory = <<>>
  /\ ctl.batchTraj = <<>>
  /\ ctl.batchEpisodes = 0
  /\ ctl.baseline = 0

\* C4: in PPO mode the first, second and third episode ends since the batch
\* was last emptied (each with a non-empty trajectory) buffer the episode and
\* change nothing in the weights, the Adam state, the baseline or the std;
\* the fourth starts one update over the four buffered trajectories, after
\* which the batch is empty and the counter 0.  In single-episode mode every
\* episode end with a non-empty trajectory starts one update over that
\* trajectory alone.
C4_UpdateCadence ==
  /\ [][ (pc = "end" /\ ctl.isRunning /\ ctl.trajectory # <<>>) =>
           LET n == Len(ctl.batchTraj)
               ended == { r.ep : r \in Range(ctl.trajectory) }
           IN IF ctl.policy = "ppo" /\ n < 3
              THEN /\ Learned(ctl') = Learned(ctl)
                   /\ ~fin'.active
                   /\ pc' = "reset"
                   /\ Len(ctl'.batchTraj) = n + 1
                   /\ ctl'.batchEpisodes = n + 1
              ELSE IF ctl.policy = "ppo"
              THEN /\ fin'.active
                   /\ pc' = "adam"
                   /\ Len(fin'.trainBatch) = 4
                   /\ SubSeq(fin'.trainBatch, 1, 3) = ctl.batchTraj
                   /\ { r.ep : r \in Range(fin'.trainBatch[4]) } = ended
              ELSE /\ fin'.active
                   /\ pc' = "adam"
                   /\ Len(fin'.trainBatch) = 1
                   /\ { r.ep : r \in Range(fin'.trainBatch[1]) } = ended ]_vars
  /\ [][ (pc = "adam" /\ pc' # "adam") =>
           (pc' = "reset" /\ ~fin'.active /\ ctl'.batchTraj = <<>> /\ ctl'.batchEpisodes = 0) ]_vars

\* the PPO update over four buffered episodes has run its epochs
C4_Witness ==
  /\ pc = "adam"
  /\ fin.currentPolicy = "ppo"
  /\ Len(fin.trainBatch) = 4
  /\ fin.epoch = fin.epochs
  /\ Cardinality({ r.ep : r \in Range(Flatten(fin.trainBatch)) }) = 4

\* C5: an episode end that finds the trajectory empty changes neither the
\* weights, the Adam state, the baseline, the std, the batch nor the batch
\* counter, and starts no update.
C5_EmptyEpisodeEnd ==
  [][ (pc = "end" /\ ctl.trajectory = <<>>) =>
        (Learned(ctl') = Learned(ctl) /\ Buffers(ctl') = Buffers(ctl) /\ ~fin'.active
           /\ pc' = "reset") ]_vars

\* while training runs, the goal that follows a miss in the same tick finds
\* the trajectory already moved into the batch
C5_Witness ==
  /\ pc = "end"
  /\ ctl.isRunning
  /\ result = "goal"
  /\ ctl.trajectory = <<>>
  /\ ctl.misses >= 1

\* C6: startTraining leaves, whatever the state before it, freshly created
\* weights, the Adam state all zero with t = 0, std 0.6, baseline 0, an empty
\* trajectory and batch, the batch counter and the episode, goal and miss
\* counters 0, and an empty reward history.
C6_StartTraining ==
  [][ (~ctl.isRunning /\ ctl'.isRunning) =>
        /\ ctl'.weights.step = 0
        /\ ctl'.weights.gen = session'
        /\ ctl'.weights.gen > ctl.weights.gen
        /\ ctl'.adam.t = 0
        /\ ctl'.adam.folded = 0
        /\ \A a \in ParamArrays : ctl'.adam.used[a] = 0
        /\ ctl'.std = 600000
        /\ ctl'.baseline = 0
        /\ ctl'.trajectory = <<>>
        /\ ctl'.batchTraj = <<>>
        /\ ctl'.batchEpisodes = 0
        /\ ctl'.episodes = 0
        /\ ctl'.goals = 0
        /\ ctl'.misses = 0
        /\ ctl'.rewardHistory = <<>> ]_vars

\* a second training session has just been started, after episodes of the first
C6_Witness ==
  /\ pc = "idle"
  /\ ctl.isRunning
  /\ session = 2
  /\ epId >= 3
  /\ ctl.weights = [ gen |-> 2, step |-> 0 ]
  /\ ctl.episodes = 0
  /\ phys.ball.active

\* C7: the weights and the Adam state change only in an epoch of the learning
\* update or by startTraining.
C7_WeightsChange ==
  [][ (ctl'.weights # ctl.weights \/ ctl'.adam # ctl.adam) =>
        \/ pc = "adam" /\ fin.active /\ fin.epoch < fin.epochs
        \/ pc = "idle" /\ ~ctl.isRunning /\ ctl'.isRunning ]_vars

\* the mode has been switched while training runs, after an update
C7_Witness ==
  /\ pc = "idle"
  /\ ctl.isRunning
  /\ ctl.policy = "ppo"
  /\ ctl.weights.step >= 1
  /\ ctl.adam.t = ctl.weights.step
  /\ ctl.episodes >= 1
  /\ ctl.batchTraj = <<>>
  /\ ctl.baseline = 0

\* C8: in a tick with training running and the ball active the policy is asked
\* for an action exactly once, with a snapshot of the ball, the effector, the
\* goal and the viewport as the tick found them, before the tick has changed
\* the joint angles or the ball; the delta it returned has been added to the
\* IK target, clamped to the viewport, when the ball is moved.  In any other
\* tick no action is asked for and the target stays.
C8_ActionPerTick ==
  /\ pc = "move" =>
       IF ctl.isRunning /\ pre.ball.active
       THEN /\ nActions = 1
            /\ frame.ball = pre.ball
            /\ frame.effector = [ x |-> Arm(pre).ex, y |-> Arm(pre).ey ]
            /\ frame.goal = [ x |-> pre.goalX, y |-> Px(40), width |-> Px(200), height |-> Px(50) ]
            /\ frame.viewport = [ width |-> pre.width, height |-> pre.height ]
            /\ phys.targetX = clamp(pre.targetX + Px(action[1]), 0, Px(pre.width))
            /\ phys.targetY = clamp(pre.targetY + Px(action[2]), 0, Px(pre.height))
            /\ phys.ball = pre.ball
            /\ phys.theta = pre.theta
       ELSE /\ nActions = 0
            /\ frame = None
            /\ phys = pre
  /\ pc \in {"end", "adam", "reset"} =>
       nActions = IF ctl.isRunning /\ pre.ball.active THEN 1 ELSE 0
  /\ pc \in {"idle", "tick"} => nActions = 0

\* the action of a tick in mid-flight has moved the IK target and the ball is
\* about to be moved
C8_Witness ==
  /\ pc = "move"
  /\ ctl.isRunning
  /\ nActions = 1
  /\ Len(ctl.trajectory) = 2
  /\ frame.ball.vy # 0
  /\ phys.targetX # pre.targetX
  /\ phys.ball = pre.ball

\* C9: the trajectory grows by exactly one record in every tick with training
\* running and the ball active, and by none in any other step; whenever an
\* episode ends its length is the number of such ticks since it was last
\* emptied.
C9_TrajectoryGrowth ==
  /\ [][ /\ pc = "tick" =>
              /\ Len(ctl'.trajectory) =
                   Len(ctl.trajectory) + (IF ctl.isRunning /\ phys.ball.active THEN 1 ELSE 0)
              /\ SubSeq(ctl'.trajectory, 1, Len(ctl.trajectory)) = ctl.trajectory
         /\ pc # "tick" => ctl'.trajectory \in {ctl.trajectory, <<>>} ]_vars
  /\ [](Len(ctl.trajectory) = sinceEmpty)

\* an episode ends on its second tick
C9_Witness ==
  /\ pc = "end"
  /\ ctl.isRunning
  /\ Len(ctl.trajectory) = 2
  /\ sinceEmpty = 2

\* C10: when an episode ends while training runs, with a non-empty
\* trajectory, the terminal reward (+1 for a goal, -1 for a miss) is added to
\* the reward of the trajectory's last record and to no other; the buffered
\* records are not changed again.
C10_TerminalReward ==
  [][ /\ (pc = "end" /\ ctl.isRunning /\ ctl.trajectory # <<>>) =>
          LET old == ctl.trajectory
              n == Len(old)
              new == ctl'.batchTraj[Len(ctl'.batchTraj)]
          IN /\ Len(ctl'.batchTraj) = Len(ctl.batchTraj) + 1
             /\ Len(new) = n
             /\ \A i \in 1..(n - 1) : new[i] = old[i]
             /\ new[n] = [ old[n] EXCEPT !.reward = old[n].reward + TerminalReward(result) ]
             /\ SubSeq(ctl'.batchTraj, 1, Len(ctl.batchTraj)) = ctl.batchTraj
             /\ fin'.active => fin'.trainBatch[Len(fin'.trainBatch)] = new
      /\ pc # "end" => ctl'.batchTraj \in {ctl.batchTraj, <<>>} ]_vars

\* a missed episode of two ticks has been buffered
C10_Witness ==
  /\ pc \in {"adam", "reset"}
  /\ result = "miss"
  /\ ctl.batchTraj # <<>>
  /\ LET t == ctl.batchTraj[Len(ctl.batchTraj)]
     IN /\ Len(t) = 2
        /\ t[2].reward = computeStepReward(frame) - 1000
        /\ t[1].reward > t[2].reward

(***************************************************************************)
(* Properties of the learning update's functions.                          *)
(***************************************************************************)
\* the clipped surrogate min(ratio * adv, clip(ratio) * adv), in 1/1000000
Surrogate(ratio, adv) ==
  Min(ratio * adv, clamp(ratio, 800, 1200) * adv)

\* its slope in ratio, in 1/1000, taken over the unit step toward ratio 1
\* (at ratio 1 itself, the step above)
SurrogateSlope(ratio, adv) ==
  LET toward == IF ratio > 1000 THEN ratio - 1 ELSE ratio + 1
  IN (Surrogate(ratio, adv) - Surrogate(toward, adv)) \div (ratio - toward)

\* C17: in PPO mode a sample is skipped (contributes zero gradient) exactly
\* when the advantage is >= 0 and the ratio above 1 + eps, or the advantage
\* is < 0 and the ratio below 1 - eps, with eps = 0.2; every other sample has
\* the ratio as its gradient scale; and the contribution, scale * adv or 0,
\* is ratio times the slope of min(ratio * adv, clip(ratio) * adv).
C17_ClipBranch ==
  (out.kind = "gradScale" /\ inp.policy = "ppo") =>
    /\ out.grad.skip <=> \/ (inp.adv >= 0 /\ inp.ratio > 1200)
                         \/ (inp.adv < 0 /\ inp.ratio < 800)
    /\ ~out.grad.skip => out.grad.scale = inp.ratio
    /\ (IF out.grad.skip THEN 0 ELSE out.grad.scale * inp.adv)
         = inp.ratio * SurrogateSlope(inp.ratio, inp.adv)

\* a sample with negative advantage and a ratio below the clip range is skipped
C17_Witness ==
  /\ out.kind = "gradScale"
  /\ inp.policy = "ppo"
  /\ inp.adv < 0
  /\ inp.ratio = 799
  /\ out.grad.skip

\* C18: a sample whose new log-probability equals the stored one has ratio 1
\* and in PPO mode is not skipped and has gradient scale 1, which is the
\* scale of the unclipped policy-gradient update.
C18_RatioOne ==
  (out.kind = "sample" /\ inp.policy = "ppo" /\ inp.newLogP = inp.oldLogP) =>
    /\ out.ratio = 1000
    /\ ~out.grad.skip
    /\ out.grad.scale = 1000
    /\ out.grad = gradScale("pg", out.ratio, inp.adv)

\* a PPO sample with equal log-probabilities has been scaled
C18_Witness ==
  /\ out.kind = "sample"
  /\ inp.policy = "ppo"
  /\ inp.newLogP = inp.oldLogP
  /\ inp.adv < 0
  /\ out.ratio = 1000

\* C20: the returns of every trajectory of a batch satisfy G_last = r_last
\* and G_t = r_t + 0.99 * G_(t+1) for every earlier t; for rewards
\* [r0, r1, r2] they are [r0 + g(r1 + g r2), r1 + g r2, r2]; and they are the
\* returns the trajectory has in a batch of its own.
C20_Returns ==
  out.kind = "returns" =>
    /\ Len(out.returnsPerTraj) = Len(inp.batch)
    /\ \A k \in 1..Len(inp.batch) :
         LET t == inp.batch[k]
             G == out.returnsPerTraj[k]
             n == Len(t)
             g(x) == Scale(x, 99, 100)
         IN /\ Len(G) = n
            /\ G[n] = t[n].reward
            /\ \A i \in 1..(n - 1) : G[i] = t[i].reward + g(G[i + 1])
            /\ n = 3 => G = << t[1].reward + g(t[2].reward + g(t[3].reward)),
                              t[2].reward + g(t[3].reward),
                              t[3].reward >>
            /\ \A other \in Trajectories : G = ReturnsPerTraj(<<other, t>>)[2]

\* the returns of a batch whose second trajectory has three non-zero rewards
C20_Witness ==
  /\ out.kind = "returns"
  /\ Len(inp.batch) = 2
  /\ Len(inp.batch[2]) = 3
  /\ inp.batch[2][1].reward = -250
  /\ inp.batch[2][2].reward = -250
  /\ inp.batch[2][3].reward = 1000
  /\ out.returnsPerTraj[2] = <<482, 740, 1000>>

\* C19: in an update of plain policy-gradient mode the gradient scale of
\* every sample of the batch is its importance ratio
\* exp(newLogProb - oldLogProb), and no sample is skipped.
C19_PgScale ==
  (pc = "adam" /\ fin.currentPolicy = "pg" /\ fin.epoch < fin.epochs) =>
    \A rec \in Range(Flatten(fin.trainBatch)) :
      \A d \in logProbDifference(rec, ctl.weights, ctl.std) :
        \A adv \in Advs :
          gradScale(fin.currentPolicy, importanceRatio(d, 0), adv)
            = [ skip |-> FALSE, scale |-> importanceRatio(d, 0) ]

\* a policy-gradient update is about to run its epoch over an episode of two
\* steps
C19_Witness ==
  /\ pc = "adam"
  /\ fin.currentPolicy = "pg"
  /\ fin.epoch = 0
  /\ fin.epochs = 1
  /\ Len(fin.trainBatch) = 1
  /\ Len(fin.trainBatch[1]) = 2

(***************************************************************************)
(* Properties of the physics tick.                                         *)
(***************************************************************************)
\* the ball's circle reaches into the goal rectangle in x and in y extent
CircleOverlapsGoal(p) ==
  /\ p.ball.x + Px(BallRadius) > p.goalX
  /\ p.ball.x - Px(BallRadius) < p.goalX + Px(GoalWidth)
  /\ p.ball.y + Px(BallRadius) > Px(GoalY)
  /\ p.ball.y - Px(BallRadius) < Px(GoalY) + Px(GoalHeight)

\* C11: one goal event per crossing: a tick raises goal only for a ball that
\* was outside the goal when the tick began, so that after the reset that
\* follows a goal no tick raises goal until the ball has entered anew.
C11_OneGoalPerCrossing ==
  (pc = "end" /\ result = "goal") => ~goalCondition(pre)

\* C12: an outcome is raised only on a true terminal condition: goal only
\* for a ball whose circle overlaps the goal rectangle in x and in y, miss
\* only for a ball whose bottom edge is below the floor.
C12_TrueTerminal ==
  pc = "end" =>
    /\ result = "goal" => CircleOverlapsGoal(phys)
    /\ result = "miss" => phys.ball.y + Px(BallRadius) > Px(phys.height)

C13_UnsizedResetNoOp ==
  (out.kind = "resetEpisode" /\ inp.phys.width = 0 /\ inp.phys.height = 0) =>
    /\ out.phys.ball = inp.phys.ball
    /\ out.phys.targetX = inp.phys.targetX
    /\ out.phys.targetY = inp.phys.targetY

C16_ActionBounded ==
  (pc \in {"move", "end", "adam"} /\ nActions >= 1) =>
    /\ Abs(action[1]) <= 15
    /\ Abs(action[2]) <= 15
    /\ 0 <= phys.targetX
    /\ phys.targetX <= Px(phys.width)
    /\ 0 <= phys.targetY
    /\ phys.targetY <= Px(phys.height)

\* an action has been applied to a target that a resize had left below the
\* floor, and the target stands on the floor
C16_Witness ==
  /\ pc = "move"
  /\ nActions = 1
  /\ action[2] = 0
  /\ pre.targetY > Px(pre.height)
  /\ phys.targetY = Px(phys.height)

(***************************************************************************)
(* Properties of the learner late in training.                             *)
(***************************************************************************)
\* C21: the exploration noise changes only in the step that ends a learning
\* update, once, to max(floor, std * k) with k = 0.9995 in PPO mode and
\* k = 0.998 in plain policy-gradient mode, and in startTraining; no other
\* step, an episode end without update included, changes it.  So between
\* two startTraining calls it never increases and never falls below the
\* floor 0.08.
C21_StdDecay ==
  [][ session' = session =>
        /\ ctl'.std <= ctl.std
        /\ ctl'.std >= StdFloor
        /\ IF pc = "adam" /\ pc' = "reset"
           THEN LET k == IF fin.currentPolicy = "ppo" THEN 2000 ELSE 500
                    drop == ctl.std - ctl'.std
                IN IF ctl'.std > StdFloor
                   THEN k * drop <= ctl.std /\ ctl.std < k * drop + k
                   ELSE k * (ctl.std - StdFloor) < ctl.std + k
           ELSE ctl'.std = ctl.std ]_vars

\* a policy-gradient update has brought the noise down onto its floor
C21_Witness ==
  /\ pc = "reset"
  /\ ctl.isRunning
  /\ ctl.std = StdFloor
  /\ ctl.weights.step = LateUpdates + 1

(***************************************************************************)
(* Properties of the optimizer.                                            *)
(***************************************************************************)
\* C22: every epoch increments the Adam step counter t by exactly 1 and
\* then steps each of the six parameter arrays once with that t, so that t
\* is at least 1 at every Adam step; no other step but startTraining changes
\* t; and since the last startTraining t is the number of policy-gradient
\* updates plus 4 times the number of PPO updates, less the epochs an
\* update in progress has still to run.
C22_AdamCounter ==
  /\ [](ctl.adam.t = updates["pg"] + 4 * updates["ppo"]
                      - (IF fin.active THEN fin.epochs - fin.epoch ELSE 0))
  /\ [][ IF fin'.epoch = fin.epoch + 1
         THEN /\ ctl'.adam.t = ctl.adam.t + 1
              /\ ctl'.adam.t >= 1
              /\ \A a \in ParamArrays : ctl'.adam.used[a] = ctl'.adam.t
              /\ ctl'.weights.step = ctl.weights.step + 1
         ELSE session' = session => ctl'.adam = ctl.adam ]_vars

\* a policy-gradient update and a PPO update have both been run since
\* startTraining
C22_Witness ==
  /\ pc = "reset"
  /\ updates["pg"] >= 1
  /\ updates["ppo"] = 1
  /\ ctl.adam.t = updates["pg"] + 4
  /\ \A a \in ParamArrays : ctl.adam.used[a] = ctl.adam.t

(***************************************************************************)
(* Properties of the frame loop.                                           *)
(***************************************************************************)
\* C23: a frame runs exactly 1 physics step while training is not running
\* and max(1, floor(simulationSpeed)) steps while it is, and never more than
\* 40, for every speed the slider can pass.
C23_StepsPerFrame ==
  out.kind = "loops" =>
    /\ ~inp.isRunning => out.loops = 1
    /\ inp.isRunning => out.loops = inp.value /\ out.loops >= 1
    /\ out.loops <= 40

\* the slider at its upper end while training runs
C23_Witness ==
  /\ out.kind = "loops"
  /\ inp.isRunning
  /\ inp.value = SliderMax
  /\ out.loops = 40

\* C24: however long the gap since the frame before, a frame runs no more
\* than 40 fixed physics steps and integrates no more than 2 frames of
\* time, and what a frame does depends on its own gap only: time that was
\* not processed is dropped, not carried into later frames.
C24_FrameTimeCapped ==
  out.kind = "frames" =>
    \A k \in 1..Len(inp.gaps) :
      /\ out.steps[k] <= 40
      /\ out.steps[k] = out.steps[1]
      /\ out.dts[k] <= 2000
      /\ out.dts[k] = Min(2000, 60 * inp.gaps[k])
      /\ \A g \in GapsMs :
           k > 1 => renderFrames(0, 0, [ inp.gaps EXCEPT ![k - 1] = g ])[k] = out.dts[k]

\* a frame 16 ms after one that came 5 s late
C24_Witness ==
  /\ out.kind = "frames"
  /\ inp.isRunning
  /\ inp.value = SliderMax
  /\ inp.gaps = <<5000, 16>>
  /\ out.dts = <<2000, 960>>
  /\ out.steps = <<40, 40>>

\* C25: two impulses that the same arm segment gives the ball are at least
\* 60 ms apart, with one physics tick per frame of 1000 / 60 ms.
C25_ImpulseGap ==
  out.kind = "sweep" =>
    \A s \in {"upper", "lower"} :
      \A i \in 1..Len(out.impulses), j \in 1..Len(out.impulses) :
        (i < j /\ out.impulses[i][s] /\ out.impulses[j][s])
          => (j - i) * 1000 >= MinHitGapMs * FramesPerSecond

\* C26: a resize event sets the viewport's size and centres the goal; it
\* moves the ball only if the game is waiting, and then to the start position;
\* with an episode in progress the ball's position and velocity are as they
\* were; the same event handled twice leaves the state of handling it once.
C26_Resize ==
  /\ out.kind = "resize" =>
       /\ out.once.width = inp.size[1]
       /\ out.once.height = inp.size[2]
       /\ out.once.goalX = Px(inp.size[1]) \div 2 - Px(GoalWidth) \div 2
       /\ out.once.ball = inp.phys.ball
       /\ out.once.theta = inp.phys.theta
       /\ out.twice = out.once
  /\ out.kind = "resizeInteractive" =>
       /\ out.once.width = inp.size[1]
       /\ out.once.height = inp.size[2]
       /\ out.once.goalX = Px(inp.size[1]) \div 2 - Px(InteractiveGoalWidth) \div 2
       /\ out.once.gameState = inp.game.gameState
       /\ out.once.ball.vx = inp.game.ball.vx
       /\ out.once.ball.vy = inp.game.ball.vy
       /\ IF inp.game.gameState = "waiting"
          THEN /\ out.once.ball.x = out.once.ball.startX
               /\ out.once.ball.y = out.once.ball.startY
          ELSE /\ out.once.ball.x = inp.game.ball.x
               /\ out.once.ball.y = inp.game.ball.y
       /\ out.twice = out.once

\* a window made larger while the ball is in flight
C26_Witness ==
  /\ out.kind = "resizeInteractive"
  /\ inp.game.gameState = "playing"
  /\ inp.game.ball.vx # 0
  /\ inp.game.height < inp.size[2]
  /\ out.once.ball.startY # inp.game.ball.startY
  /\ out.once.ball.y = inp.game.ball.y

\* the effector is within half a pixel of the target
IKTolerance == Px(1) \div 2

\* C27: for every target no farther than l1 + l2 from the arm base, the
\* angles of solveIK put the effector of the forward kinematics on the target,
\* within the tolerance.
C27_IKRoundTrip ==
  out.kind = "ik" =>
    LET tx == Px(inp.target[1])
        ty == Px(inp.target[2])
    IN tx * tx + ty * ty <= (Px(L1) + Px(L2)) * (Px(L1) + Px(L2))
         => /\ Abs(out.arm.ex - tx) <= IKTolerance
            /\ Abs(out.arm.ey - ty) <= IKTolerance

\* C28: when an update starts, every record of the batch it trains on was
\* sampled under the weights and the std the learner has now, so the
\* difference of log-probabilities is 0 and the ratio of the first epoch is 1.
C28_BatchOnPolicy ==
  (fin.active /\ fin.epoch = 0) =>
    \A i \in 1..Len(fin.trainBatch) :
      \A j \in 1..Len(fin.trainBatch[i]) :
        LET rec == fin.trainBatch[i][j]
        IN /\ rec.weights = ctl.weights
           /\ rec.std = ctl.std
           /\ \A d \in logProbDifference(rec, ctl.weights, ctl.std), old \in LogProbs :
                importanceRatio(old + d, old) = 1000

\* a PPO update starts on its batch of four episodes
C28_Witness ==
  /\ fin.active
  /\ fin.epoch = 0
  /\ fin.currentPolicy = "ppo"
  /\ Len(fin.trainBatch) = PpoBatch
  /\ fin.trainBatch[1][1].ep # fin.trainBatch[PpoBatch][1].ep

\* C29: between two events the batch counter is the number of trajectories
\* in the batch list and at most 3, no trajectory of the list is empty, and
\* while training runs with the policy-gradient policy the list is empty.
C29_BatchCounter ==
  pc \in {"idle", "tick"} =>
    /\ ctl.batchEpisodes = Len(ctl.batchTraj)
    /\ ctl.batchEpisodes <= PpoBatch - 1
    /\ \A i \in 1..Len(ctl.batchTraj) : ctl.batchTraj[i] # <<>>
    /\ (ctl.isRunning /\ ctl.policy = "pg") => ctl.batchTraj = <<>>

\* PPO waits for its fourth episode
C29_Witness ==
  /\ pc = "idle"
  /\ ctl.isRunning
  /\ ctl.policy = "ppo"
  /\ ctl.batchEpisodes = PpoBatch - 1
  /\ Len(ctl.batchTraj) = PpoBatch - 1

\* C30: a tick raises at most one outcome in every viewport: after the miss
\* of a tick and its reset the same tick raises no goal, and an episode is
\* counted only when its trajectory, which is not empty, goes to the learner.
C30_OneOutcomePerTick ==
  [][ /\ (pc = "reset" /\ result = "miss") => pc' # "end"
      /\ (pc = "end" /\ ctl'.episodes = ctl.episodes + 1) => ctl.trajectory # <<>> ]_vars
====
